---- MODULE Spec2Model ----
(***************************************************************************)
(* A model of the CelticCalendar core: the Julian-day conversion and the   *)
(* fixed 5-year Coligny cycle of calendar.c, and the lunar, solar, sunset  *)
(* and eight-fold-year computations of astronomy.c.                        *)
(*                                                                         *)
(* Numbers.  TLC integers are 32 bits wide, the C code computes in double. *)
(*  - Day quantities of the lunar model (Julian days with a fraction, the  *)
(*    synodic month) are pairs <<d, f>> standing for d + f * 10^-8 days,   *)
(*    0 <= f < 10^8.  All constants of the lunar code have at most eight   *)
(*    decimals, so this arithmetic is exact; the double results differ     *)
(*    from it by about 10^-12 and every comparison or truncation the code  *)
(*    makes is at least 10^-9 away from its threshold.                     *)
(*  - The calendar code is integer code and is modelled exactly, with C's  *)
(*    truncating / and %.                                                  *)
(***************************************************************************)
EXTENDS Integers, Sequences, FiniteSets, TLC

VARIABLES jd, latitude, current_hour, op, ret, days_to_event,
          arg_year, arg_month, arg_day, locals

\* main's year, month, day: the civil date given on the command line
date == <<arg_year, arg_month, arg_day>>

vars == <<jd, latitude, current_hour, op, ret, days_to_event, date, locals>>

(***************************************************************************)
(* C integer arithmetic: / truncates toward zero, % takes the sign of the  *)
(* dividend; a cast (long)x of a double truncates toward zero.             *)
(***************************************************************************)
CDiv(a, b) == IF a >= 0 THEN a \div b ELSE -((-a) \div b)

CMod(a, b) == a - b * CDiv(a, b)

Abs(a) == IF a < 0 THEN -a ELSE a

(***************************************************************************)
(* Day quantities <<d, f>> = d + f * 10^-8.                                *)
(***************************************************************************)
FracUnit == 10000 * 10000

DayNorm(d, f) == <<d + (f \div FracUnit), f % FracUnit>>

DayAdd(p, q) == DayNorm(p[1] + q[1], p[2] + q[2])

DaySub(p, q) == DayNorm(p[1] - q[1], p[2] - q[2])

\* k * p for a small natural k (k * 10^8 must stay below 2^31: k <= 21)
DayScale(k, p) == DayNorm(k * p[1], k * p[2])

DayLess(p, q) == p[1] < q[1] \/ (p[1] = q[1] /\ p[2] < q[2])

(***************************************************************************)
(* astronomy.c: the synodic month and the reference new moon.              *)
(***************************************************************************)
\* double synodic = 29.53058867
SynodicWhole == 29

SynodicFrac == 53058867

synodic == <<SynodicWhole, SynodicFrac>>

\* double new_moon_ref = 2451550.1
NewMoonRefWhole == 2451550

NewMoonRefFrac == 10000000

new_moon_ref == <<NewMoonRefWhole, NewMoonRefFrac>>

\* n * synodic, exact, for |n| < 200000: 0.53058867 = 5305 * 10^-4 + 8867 * 10^-8
Lunations(n) ==
    LET hi == n * 5305
        q  == hi \div 10000
        r  == hi % 10000
    IN  DayNorm(n * SynodicWhole + q, r * 10000 + n * 8867)

\* floor((jd - new_moon_ref) / synodic): an estimate from four decimals,
\* corrected by comparing exactly
LunationNumber(j) ==
    LET x  == DaySub(<<j, 0>>, new_moon_ref)
        n0 == (x[1] * 10000 + x[2] \div 10000) \div 295306
        a0 == DaySub(x, Lunations(n0))
    IN  IF a0[1] < 0 THEN n0 - 1
        ELSE IF ~DayLess(a0, synodic) THEN n0 + 1
        ELSE n0

(***************************************************************************)
(* phase = fmod((jd - new_moon_ref) / synodic, 1.0); if (phase < 0)        *)
(* phase += 1.0: the fraction of the lunation elapsed at jd, in [0, 1).    *)
(* It is carried as phase * synodic, the Moon's age in days (a pair), so   *)
(* that phase < n/m is m * age < n * synodic.                              *)
(***************************************************************************)
synodic_phase(j) ==
    DaySub(DaySub(<<j, 0>>, new_moon_ref), Lunations(LunationNumber(j)))

\* phase < n/m
PhaseLess(age, n, m) == DayLess(DayScale(m, age), DayScale(n, synodic))

\* a mutant of moon_phase: "if (phase < 0) phase += 1.0" left out, so that a day
\* before the reference new moon has a negative phase, below 0.125
moon_phase_negative(j) ==
    LET phase == synodic_phase(j)
    IN  IF DayLess(<<j, 0>>, new_moon_ref) THEN 0
        ELSE IF PhaseLess(phase, 1, 8) THEN 0
        ELSE IF PhaseLess(phase, 3, 8) THEN 1
        ELSE IF PhaseLess(phase, 5, 8) THEN 2
        ELSE IF PhaseLess(phase, 7, 8) THEN 3
        ELSE 0

\* astronomy.c moon_phase: 0=new, 1=first quarter, 2=full, 3=last quarter
moon_phase(j) ==
    LET phase == synodic_phase(j)
    IN  IF PhaseLess(phase, 1, 8) THEN 0
        ELSE IF PhaseLess(phase, 3, 8) THEN 1
        ELSE IF PhaseLess(phase, 5, 8) THEN 2
        ELSE IF PhaseLess(phase, 7, 8) THEN 3
        ELSE 0

\* (long)((phase - 0.5) * synodic) resp. (long)((phase + 0.5) * synodic):
\* twice the value is 2 * age -/+ synodic = <<D, F>>, whose half has floor D \div 2
days_since_full(j) ==
    LET phase == synodic_phase(j)
        twice == IF ~PhaseLess(phase, 1, 2)
                   THEN DaySub(DayScale(2, phase), synodic)
                   ELSE DayAdd(DayScale(2, phase), synodic)
    IN  twice[1] \div 2

\* the mutant of find_full_moon_before: the half lunation between new and full
\* moon left out, days_since_full = phase * synodic
find_full_moon_before_unshifted(j) == j - synodic_phase(j)[1]

\* a mutant of find_full_moon_before: days_since_full rounded to the nearest
\* day instead of truncated
find_full_moon_before_rounded(j) ==
    LET phase == synodic_phase(j)
        twice == IF ~PhaseLess(phase, 1, 2)
                   THEN DaySub(DayScale(2, phase), synodic)
                   ELSE DayAdd(DayScale(2, phase), synodic)
    IN  j - ((twice[1] + 1) \div 2)

\* astronomy.c find_full_moon_before
find_full_moon_before(j) == j - days_since_full(j)

\* astronomy.c lunar_day_of_month
lunar_day_of_month(j) == (j - find_full_moon_before(j)) + 1

\* the mutant of lunar_month_length: the retry at jd + 35 is taken for every jd
lunar_month_length_retry(j) ==
    LET this_full == find_full_moon_before(j)
        next_full == find_full_moon_before(j + 35)
        length    == next_full - this_full
    IN  IF length >= 30 THEN 30 ELSE 29

\* a mutant of lunar_month_length: the distance returned as it is, without
\* "(length >= 30) ? 30 : 29"
lunar_month_length_unclamped(j) ==
    LET this_full == find_full_moon_before(j)
        next30    == find_full_moon_before(j + 30)
        next_full == IF next30 <= this_full
                       THEN find_full_moon_before(j + 35)
                       ELSE next30
    IN  next_full - this_full

\* astronomy.c lunar_month_length
lunar_month_length(j) ==
    LET this_full == find_full_moon_before(j)
        next30    == find_full_moon_before(j + 30)
        next_full == IF next30 <= this_full
                       THEN find_full_moon_before(j + 35)
                       ELSE next30
        length    == next_full - this_full
    IN  IF length >= 30 THEN 30 ELSE 29

(***************************************************************************)
(* calendar.c: the Julian day of a civil date, and the fixed 5-year cycle. *)
(***************************************************************************)
\* calendar.c jd_from_ymd; (long)(365.25 * n) = trunc(1461 n / 4) and
\* (long)(30.6001 * n) = trunc(306001 n / 10000)
\* a mutant of jd_from_ymd: the Gregorian century correction B left out
jd_from_ymd_julian(Y0, M0, D) ==
    LET Y == IF M0 <= 2 THEN Y0 - 1 ELSE Y0
        M == IF M0 <= 2 THEN M0 + 12 ELSE M0
    IN  CDiv(1461 * (Y + 4716), 4) + CDiv(306001 * (M + 1), 10000) + D - 1524

\* a mutant of jd_from_ymd: the day counted from the midnight before, 1524.5 cut up
jd_from_ymd_midnight(Y0, M0, D) ==
    LET Y == IF M0 <= 2 THEN Y0 - 1 ELSE Y0
        M == IF M0 <= 2 THEN M0 + 12 ELSE M0
        A == CDiv(Y, 100)
        B == 2 - A + CDiv(A, 4)
    IN  CDiv(1461 * (Y + 4716), 4) + CDiv(306001 * (M + 1), 10000) + D + B - 1525

jd_from_ymd(Y0, M0, D) ==
    LET Y == IF M0 <= 2 THEN Y0 - 1 ELSE Y0
        M == IF M0 <= 2 THEN M0 + 12 ELSE M0
        A == CDiv(Y, 100)
        B == 2 - A + CDiv(A, 4)
    IN  CDiv(1461 * (Y + 4716), 4) + CDiv(306001 * (M + 1), 10000) + D + B - 1524

ANCHOR_JD == 2460981

ANCHOR_YEAR == 5127

ANCHOR_CYCLE_POS == 0

CYCLE_YEARS == 5

CYCLE_DAYS == 1830

\* static tables of calendar.c, C index i is TLA+ index i + 1
year_days_in_cycle == <<384, 354, 384, 354, 354>>

cycle_year_start == <<0, 384, 738, 1122, 1476>>

\* the loop "for (i = 0; i < 5; i++) if (remaining_days < start[i] + days[i])":
\* the first such i, or dflt when the loop runs out
FirstCycleYear(remaining_days, dflt) ==
    LET hits == {i \in 0..4 :
                   remaining_days < cycle_year_start[i + 1] + year_days_in_cycle[i + 1]}
    IN  IF hits = {} THEN dflt
        ELSE CHOOSE i \in hits : \A k \in hits : i <= k

\* a mutant of celtic_year_from_jd: the correction of a negative remainder left out
celtic_year_from_jd_unadjusted(j) ==
    LET delta == j - ANCHOR_JD
    IN  ANCHOR_YEAR + CDiv(delta, CYCLE_DAYS) * CYCLE_YEARS
          + FirstCycleYear(CMod(delta, CYCLE_DAYS), 0)

\* a mutant of celtic_year_from_jd: the anchor year taken as the year after it
celtic_year_from_jd_shifted(j) ==
    LET delta == j - ANCHOR_JD
        neg   == CMod(delta, CYCLE_DAYS) < 0
        full_cycles    == IF neg THEN CDiv(delta, CYCLE_DAYS) - 1
                                 ELSE CDiv(delta, CYCLE_DAYS)
        remaining_days == IF neg THEN CMod(delta, CYCLE_DAYS) + CYCLE_DAYS
                                 ELSE CMod(delta, CYCLE_DAYS)
    IN  ANCHOR_YEAR + 1 + full_cycles * CYCLE_YEARS + FirstCycleYear(remaining_days, 0)

\* calendar.c celtic_year_from_jd
celtic_year_from_jd(j) ==
    LET delta == j - ANCHOR_JD
        neg   == CMod(delta, CYCLE_DAYS) < 0
        full_cycles    == IF neg THEN CDiv(delta, CYCLE_DAYS) - 1
                                 ELSE CDiv(delta, CYCLE_DAYS)
        remaining_days == IF neg THEN CMod(delta, CYCLE_DAYS) + CYCLE_DAYS
                                 ELSE CMod(delta, CYCLE_DAYS)
    IN  ANCHOR_YEAR + full_cycles * CYCLE_YEARS + FirstCycleYear(remaining_days, 0)

\* a mutant of year_in_cycle_from_jd: the correction of a negative remainder left out
year_in_cycle_from_jd_unadjusted(j) ==
    FirstCycleYear(CMod(j - ANCHOR_JD, CYCLE_DAYS), 4)

\* calendar.c year_in_cycle_from_jd
year_in_cycle_from_jd(j) ==
    LET r == CMod(j - ANCHOR_JD, CYCLE_DAYS)
        remaining_days == IF r < 0 THEN r + CYCLE_DAYS ELSE r
    IN  FirstCycleYear(remaining_days, 4)

\* calendar.c current_year_length
current_year_length(j) == year_days_in_cycle[year_in_cycle_from_jd(j) + 1]

\* the loop of jd_start_of_celtic_year: the days of the first rem years of the cycle
RECURSIVE CycleDaysBefore(_)
CycleDaysBefore(rem) ==
    IF rem <= 0 THEN 0
    ELSE CycleDaysBefore(rem - 1)
           + year_days_in_cycle[((ANCHOR_CYCLE_POS + (rem - 1)) % CYCLE_YEARS) + 1]

\* calendar.c jd_start_of_celtic_year
jd_start_of_celtic_year(year) ==
    LET delta_years == year - ANCHOR_YEAR
        neg         == CMod(delta_years, CYCLE_YEARS) < 0
        full_cycles == IF neg THEN CDiv(delta_years, CYCLE_YEARS) - 1
                              ELSE CDiv(delta_years, CYCLE_YEARS)
        rem         == IF neg THEN CMod(delta_years, CYCLE_YEARS) + CYCLE_YEARS
                              ELSE CMod(delta_years, CYCLE_YEARS)
    IN  ANCHOR_JD + full_cycles * CYCLE_DAYS + CycleDaysBefore(rem)

(***************************************************************************)
(* calendar.c: the month tables.  A C array index i is the position i + 1  *)
(* of the sequence.                                                        *)
(***************************************************************************)
months ==
    <<"Giamonios", "Simivisonnos", "Equos", "Elembivios", "Aedrinios", "Cantlos",
      "Samonios", "Dumannios", "Riuros", "Anagantios", "Ogronnios", "Cutios">>

\* calendar.c get_celtic_month_name
get_celtic_month_name(month_index) ==
    IF month_index = -1 THEN "Quimonios"
    ELSE IF month_index < 0 \/ month_index > 11 THEN "Unknown"
    ELSE months[month_index + 1]

mat == <<0, 1, 0, 0, 1, 0, 1, 0, 1, 0, 1, 1>>

\* calendar.c is_mat_month
is_mat_month(month_index) ==
    IF month_index < 0 \/ month_index > 11 THEN 0 ELSE mat[month_index + 1]

month_days == <<29, 30, 29, 29, 30, 29, 30, 29, 30, 29, 30, 30>>

\* a mutant of get_month_days: 0 for an index outside the table
get_month_days_zero(month_index) ==
    IF month_index < 0 \/ month_index > 11 THEN 0 ELSE month_days[month_index + 1]

\* calendar.c get_month_days
get_month_days(month_index) ==
    IF month_index < 0 \/ month_index > 11 THEN 30 ELSE month_days[month_index + 1]

(***************************************************************************)
(* astronomy.c: the Sun.  Angles are integers in 10^-6 degrees, sines and  *)
(* radians integers in 10^-6.  The linear terms (280.460 + 0.9856474 * d)  *)
(* are computed exactly in 10^-8 degrees and then cut to 10^-6; sin() is   *)
(* its Taylor polynomial with every product rounded to 10^-6.  A solar     *)
(* longitude of the model is within 2 * 10^-5 degrees of the double the    *)
(* code computes.                                                          *)
(***************************************************************************)
Micro == 1000 * 1000

\* round(a * b / 10^6), exact, for |a|, |b| < 46 * 10^6
Mul(a, b) ==
    LET ah == a \div 1000
        al == a % 1000
        bh == b \div 1000
        bl == b % 1000
    IN  ah * bh + ((ah * bl + al * bh + ((al * bl + 500000) \div 1000)) \div 1000)

Deg(n) == n * Micro

\* fmod(c0 + rate * d, 360.0), plus 360 when negative: c0 in 10^-6 degrees, the
\* rate per day in 10^-8 degrees (below 1.4 * 10^9), |d| < 16000.  In [0, 360).
LinearAngle(c0, rate, d) ==
    LET hi    == (rate \div 10000) * d
        lo    == (rate % 10000) * d
        turns == DayNorm(hi \div 10000, (hi % 10000) * 10000 + lo)
        sum   == DayNorm(turns[1] + (c0 \div Micro), turns[2] + (c0 % Micro) * 100)
    IN  (sum[1] % 360) * Micro + (sum[2] \div 100)

\* x * PI / 180.0 for 0 <= x <= 45 degrees; 17453293 is 1000 * PI / 180 in 10^-6
Rad(x) == (Mul(x, 17453293) + 500) \div 1000

\* sin x and cos x for 0 <= x <= PI/4: the Taylor polynomials to x^9 and x^10
SinRad(x) ==
    LET x2 == Mul(x, x)
        t4 == Micro - (x2 \div 72)
        t3 == Micro - (Mul(x2, t4) \div 42)
        t2 == Micro - (Mul(x2, t3) \div 20)
        t1 == Micro - (Mul(x2, t2) \div 6)
    IN  Mul(x, t1)

CosRad(x) ==
    LET x2 == Mul(x, x)
        t5 == Micro - (x2 \div 90)
        t4 == Micro - (Mul(x2, t5) \div 56)
        t3 == Micro - (Mul(x2, t4) \div 30)
        t2 == Micro - (Mul(x2, t3) \div 12)
    IN  Micro - (Mul(x2, t2) \div 2)

\* sin of an angle 0 <= b <= 90 degrees, from the polynomial of the octant
SinQuadrant(b) ==
    IF b <= Deg(45) THEN SinRad(Rad(b)) ELSE CosRad(Rad(Deg(90) - b))

\* the angle of the first quadrant with the sine of 0 <= half < 180 degrees
Reflect(half) == IF half > Deg(90) THEN Deg(180) - half ELSE half

\* sin t for 0 <= t < 360 degrees: sin(t) = -sin(t - 180)
SinTurn(t) ==
    IF t >= Deg(180) THEN -SinQuadrant(Reflect(t - Deg(180)))
    ELSE SinQuadrant(Reflect(t))

\* sin(a * PI / 180.0) for any angle a in 10^-6 degrees
SinDeg(a) == SinTurn(a % Deg(360))

\* cos(a * PI / 180.0)
CosDeg(a) == SinDeg(a + Deg(90))

\* double d = jd - 2451545.0
J2000 == 2451545

\* a mutant of sun_longitude: the mean longitude L without the equation of centre
sun_longitude_mean(j) == LinearAngle(280460000, 98564740, j - J2000)

\* a mutant of sun_longitude: lambda returned without fmod(lambda, 360.0)
sun_longitude_unwrapped(j) ==
    LET d == j - J2000
        L == LinearAngle(280460000, 98564740, d)
        g == LinearAngle(357528000, 98560030, d)
    IN  L + Mul(1915000, SinDeg(g)) + Mul(20000, SinDeg(2 * g))

\* astronomy.c sun_longitude, in 10^-6 degrees
sun_longitude(j) ==
    LET d == j - J2000
        L == LinearAngle(280460000, 98564740, d)
        g == LinearAngle(357528000, 98560030, d)
        lambda == L + Mul(1915000, SinDeg(g)) + Mul(20000, SinDeg(2 * g))
    IN  lambda % Deg(360)

\* the ecliptic longitude sun_sign computes for itself, in 10^-6 degrees
sun_sign_lambda(j) ==
    LET d == j - J2000
        L == LinearAngle(280460000, 98564740, d)
        g == LinearAngle(357528000, 98560030, d)
        lambda == L + Mul(1915000, SinDeg(g)) + Mul(20000, SinDeg(2 * g))
    IN  lambda % Deg(360)

\* astronomy.c sun_sign: (int)(lambda / 30.0)
sun_sign(j) == sun_sign_lambda(j) \div Deg(30)

\* astronomy.c moon_sign: (int)(L / 30.0) of the Moon's mean longitude
moon_sign(j) == LinearAngle(218320000, 1317639600, j - J2000) \div Deg(30)

\* "if (diff > 180) diff -= 360" and "if (diff < -180) diff += 360"
WrapHigh(diff) == IF diff > Deg(180) THEN diff - Deg(360) ELSE diff

WrapLow(diff) == IF diff < -Deg(180) THEN diff + Deg(360) ELSE diff

\* a mutant of days_to_solar_longitude: the difference not taken the short way round
days_to_solar_longitude_unwrapped(j, target_longitude) ==
    CDiv(target_longitude - sun_longitude(j), 985600)

\* a mutant of days_to_solar_longitude: the quotient rounded down instead of
\* toward zero
days_to_solar_longitude_floor(j, target_longitude) ==
    WrapLow(WrapHigh(target_longitude - sun_longitude(j))) \div 985600

\* astronomy.c days_to_solar_longitude: (int)(diff / 0.9856)
days_to_solar_longitude(j, target_longitude) ==
    CDiv(WrapLow(WrapHigh(target_longitude - sun_longitude(j))), 985600)

\* the target longitudes of nearest_eightfold_event, events[0..7] as index 1..8:
\* Yule 270, Imbolc 315, Ostara 0, Beltane 45, Litha 90, Lughnasadh 135,
\* Mabon 180, Samhain 225
eightfold_longitude ==
    <<Deg(270), Deg(315), Deg(0), Deg(45), Deg(90), Deg(135), Deg(180), Deg(225)>>

\* events[i] after "if (events[i] < 0) events[i] += 365"
NextOccurrence(e) == IF e < 0 THEN e + 365 ELSE e

eightfold_days(j) ==
    [i \in 1..8 |-> NextOccurrence(days_to_solar_longitude(j, eightfold_longitude[i]))]

\* the minimum search: the first index holding the least value
FirstMin(events) ==
    CHOOSE i \in 1..8 :
        /\ \A k \in 1..8 : events[i] <= events[k]
        /\ \A k \in 1..(i - 1) : events[k] > events[i]

\* the index found, from 0, and "*days_to_event = min_days"
MinEvent(events) ==
    LET nearest == FirstMin(events)
    IN  [event |-> nearest - 1, days |-> events[nearest]]

\* a mutant of nearest_eightfold_event: the days of the events as they are
\* returned, negative for an event just passed, and the minimum of those
nearest_eightfold_event_signed(j) ==
    MinEvent([i \in 1..8 |-> days_to_solar_longitude(j, eightfold_longitude[i])])

\* astronomy.c nearest_eightfold_event: the value returned and *days_to_event
nearest_eightfold_event(j) == MinEvent(eightfold_days(j))

\* the target longitudes of nearest_cross_quarter, events 0..3 as index 1..4:
\* Samhain 225, Imbolc 315, Beltane 45, Lughnasadh 135
cross_quarter_longitude == <<Deg(225), Deg(315), Deg(45), Deg(135)>>

\* sam, imb, bel, lug after "if (sam < 0) sam += 365" and the like
cross_quarter_days(j) ==
    [i \in 1..4 |-> NextOccurrence(days_to_solar_longitude(j, cross_quarter_longitude[i]))]

\* "if (imb < min_days) ..." in turn: the first of the four holding the least
\* value, from 0, and "*days_to_event = min_days"
MinCrossQuarter(events) ==
    LET event == CHOOSE i \in 1..4 :
                     /\ \A k \in 1..4 : events[i] <= events[k]
                     /\ \A k \in 1..(i - 1) : events[k] > events[i]
    IN  [event |-> event - 1, days |-> events[event]]

\* astronomy.c nearest_cross_quarter: the value returned and *days_to_event
nearest_cross_quarter(j) == MinCrossQuarter(cross_quarter_days(j))

\* the scan "for (d = 0; d < n; d++) if (sun >= 224.5 && sun <= 225.5)" from
\* 1 November: the first day in the window, or 1 November itself
InSamhainWindow(sun) == sun >= 224500000 /\ sun <= 225500000

FirstHit(jd_nov1, hits) ==
    IF hits = {} THEN jd_nov1
    ELSE jd_nov1 + (CHOOSE k \in hits : \A m \in hits : k <= m)

SamhainScan(jd_nov1, n) ==
    FirstHit(jd_nov1, {k \in 0..(n - 1) : InSamhainWindow(sun_longitude(jd_nov1 + k))})

\* astronomy.c find_samonios_start
find_samonios_start(greg_year) ==
    find_full_moon_before(SamhainScan(jd_from_ymd(greg_year, 11, 1), 15) + 3)

\* the Gregorian month and year lunar_celtic_month_index derives from jd:
\* (z - 1867216.25) / 36524.25 = (4 z - 7468865) / 146097,
\* (b - 122.1) / 365.25 = (20 b - 2442) / 7305, 365.25 c = 1461 c / 4,
\* (b - dd) / 30.6001 = 10000 (b - dd) / 306001
\* a mutant of greg_from_jd: January taken for a month of the year before too
greg_from_jd_january(j) ==
    LET z     == j + 1
        alpha == CDiv(4 * z - 7468865, 146097)
        a     == z + 1 + alpha - CDiv(alpha, 4)
        b     == a + 1524
        c     == CDiv(20 * b - 2442, 7305)
        dd    == CDiv(1461 * c, 4)
        e     == CDiv(10000 * (b - dd), 306001)
        greg_month == IF e < 14 THEN e - 1 ELSE e - 13
        greg_year  == IF greg_month > 1 THEN c - 4716 ELSE c - 4715
    IN  [greg_month |-> greg_month, greg_year |-> greg_year]

greg_from_jd(j) ==
    LET z     == j + 1
        alpha == CDiv(4 * z - 7468865, 146097)
        a     == z + 1 + alpha - CDiv(alpha, 4)
        b     == a + 1524
        c     == CDiv(20 * b - 2442, 7305)
        dd    == CDiv(1461 * c, 4)
        e     == CDiv(10000 * (b - dd), 306001)
        greg_month == IF e < 14 THEN e - 1 ELSE e - 13
        greg_year  == IF greg_month > 2 THEN c - 4716 ELSE c - 4715
    IN  [greg_month |-> greg_month, greg_year |-> greg_year]

\* the Samonios start lunar_celtic_month_index counts from
samhain_year_of(g) ==
    IF g.greg_month >= 11 THEN g.greg_year ELSE g.greg_year - 1

\* "if (jd < jd_samonios) jd_samonios = find_samonios_start(samhain_year - 1)"
samonios_at_or_before(j, samhain_year, jd_samonios) ==
    IF j < jd_samonios THEN find_samonios_start(samhain_year - 1)
    ELSE jd_samonios

samonios_in(j, samhain_year) ==
    samonios_at_or_before(j, samhain_year, find_samonios_start(samhain_year))

samonios_for(j) == samonios_in(j, samhain_year_of(greg_from_jd(j)))

\* the loop "while (jd_check < jd_current_month)" from (jd_check, month_count):
\* the month_count it ends with
RECURSIVE CountLunations(_, _, _)
CountLunations(jd_check, jd_current_month, month_count) ==
    IF ~(jd_check < jd_current_month) THEN month_count
    ELSE IF month_count + 1 > 13 THEN month_count + 1
    ELSE CountLunations(find_full_moon_before(jd_check + 32), jd_current_month,
                        month_count + 1)

\* "if (month_count > 11) return -1"
MonthOrIntercalary(month_count) == IF month_count > 11 THEN -1 ELSE month_count

\* a mutant of lunar_celtic_month_index: the intercalary month returned as 12
lunar_celtic_month_index_twelve(j) ==
    CountLunations(samonios_for(j), find_full_moon_before(j), 0)

\* astronomy.c lunar_celtic_month_index
lunar_celtic_month_index(j) ==
    MonthOrIntercalary(CountLunations(samonios_for(j), find_full_moon_before(j), 0))

(***************************************************************************)
(* astronomy.c: sunset.  Hours are integers in 10^-6 hours.  The double    *)
(* functions are computed to 10^-6: a quotient by long division, a square  *)
(* root and an arc sine by Newton's iteration.  A sunset hour of the model *)
(* is within 10^-3 hours of the double the code computes (2 * 10^-5 where  *)
(* the Sun sets an hour or more from noon and midnight), and exactly 12.0  *)
(* or 24.0 where the code clamps.                                          *)
(***************************************************************************)
\* round(a * 10^6 / b) for 0 < b < 2 * 10^6 and |a| <= 2 b
Div(a, b) ==
    LET n  == Abs(a)
        t1 == (n % b) * 1000
        t2 == (t1 % b) * 1000
        q  == (n \div b) * Micro + (t1 \div b) * 1000 + (t2 \div b)
               + (IF 2 * (t2 % b) >= b THEN 1 ELSE 0)
    IN  IF a < 0 THEN -q ELSE q

\* sqrt(u) for 0 <= u <= 1: Newton's iteration downward from y >= sqrt(u)
RECURSIVE SqrtFrom(_, _, _)
SqrtFrom(u, y, steps) ==
    IF steps = 0 \/ u = 0 THEN (IF u = 0 THEN 0 ELSE y)
    ELSE LET next == (y + Div(u, y) + 1) \div 2
         IN  IF next >= y THEN y ELSE SqrtFrom(u, next, steps - 1)

Sqrt(u) == SqrtFrom(u, Micro, 40)

\* asin(s) in radians for 0 <= s <= sin(PI/4): Newton's iteration on sin
AsinStep(s, x) == x + Div(s - SinRad(x), CosRad(x))

AsinSmall(s) ==
    AsinStep(s, AsinStep(s, AsinStep(s, s + (Mul(s, Mul(s, s)) \div 6))))

\* PI in 10^-6
PiMicro == 3141593

\* acos(c) in radians for -1 <= c <= 1, by sin(acos(|c|) / 2) = sqrt((1 - |c|) / 2)
Supplement(c, theta) == IF c >= 0 THEN theta ELSE PiMicro - theta

Acos(c) == Supplement(c, 2 * AsinSmall(Sqrt((Micro - Abs(c)) \div 2)))

\* the ecliptic longitude and the obliquity calculate_sunset computes for jd,
\* and sin(delta) of the declination delta = asin(sin(epsilon) * sin(lambda))
sunset_sin_delta(j) ==
    LET d == j - J2000
        g == LinearAngle(357529000, 98560028, d)
        L == LinearAngle(280459000, 98564736, d)
        lambda  == (L + Mul(1915000, SinDeg(g)) + Mul(20000, SinDeg(2 * g))) % Deg(360)
        epsilon == 23439000 - ((4 * d + 5) \div 10)
    IN  Mul(SinDeg(epsilon), SinDeg(lambda))

\* cos_H as the pair (numerator, denominator) of the quotient the code forms:
\* sin(-0.833 PI / 180) = -0.014538; cos(delta) = sqrt(1 - sin(delta)^2) as delta
\* is an arc sine; cos(lat_rad) is 0 for latitude 90, where the double is 6e-17
cos_H_of(lat, sin_delta) ==
    [num |-> -14538 - Mul(SinDeg(lat), sin_delta),
     den |-> Mul(CosDeg(lat), Sqrt(Micro - Mul(sin_delta, sin_delta)))]

sunset_cos_H(j, lat) == cos_H_of(lat, sunset_sin_delta(j))

\* acos(cos_H) * 180.0 / PI / 15.0: the hour angle in hours, 12 / PI = 3.819719
cos_H_value(cos_H) == IF cos_H.den = 0 THEN 0 ELSE Div(cos_H.num, cos_H.den)

hour_angle(cos_H) == Mul(Acos(cos_H_value(cos_H)), 3819719)

\* the hour angle returned without the 12.0 of noon
sunset_hour_no_noon(cos_H) ==
    IF cos_H.num > cos_H.den THEN 12 * Micro
    ELSE IF cos_H.num < -cos_H.den THEN 24 * Micro
    ELSE hour_angle(cos_H)

\* a mutant of calculate_sunset: the 12.0 of solar noon left out
calculate_sunset_no_noon(j, lat) == sunset_hour_no_noon(sunset_cos_H(j, lat))

\* the clamps and "12.0 + H", for -90 <= latitude <= 90 (cos(lat_rad) >= 0, so
\* cos_H > 1.0 is num > den and cos_H < -1.0 is num < -den)
sunset_hour(cos_H) ==
    IF cos_H.num > cos_H.den THEN 12 * Micro
    ELSE IF cos_H.num < -cos_H.den THEN 24 * Micro
    ELSE 12 * Micro + hour_angle(cos_H)

\* astronomy.c calculate_sunset
calculate_sunset(j, lat) == sunset_hour(sunset_cos_H(j, lat))

\* a mutant of is_after_sunset: the hour of sunset itself counted as before sunset
is_after_sunset_strict(j, hour, lat) ==
    IF hour > calculate_sunset(j, lat) THEN 1 ELSE 0

\* astronomy.c is_after_sunset
is_after_sunset(j, hour, lat) ==
    IF hour >= calculate_sunset(j, lat) THEN 1 ELSE 0

\* astronomy.c celtic_jd_from_time
celtic_jd_from_time(j, hour, lat) ==
    IF is_after_sunset(j, hour, lat) # 0 THEN j + 1 ELSE j

(***************************************************************************)
(* astronomy.c: find_solilunar_samhain, and the loops of the searches one  *)
(* iteration at a time.  The local variables of a search are a record; its *)
(* field iterations counts the executions of the loop body.                *)
(***************************************************************************)
\* "if (days_to_full > 7)" and "if (days_to_prev < days_to_full)"
nearer_full(jd_solar, jd_full, jd_prev_full) ==
    IF jd_full - jd_solar > 7 /\ jd_solar - jd_prev_full < jd_full - jd_solar
        THEN jd_prev_full
    ELSE jd_full

\* find_solilunar_samhain after its scan has set jd_solar
solilunar_from(jd_solar) ==
    IF moon_phase(jd_solar) \in {0, 2} THEN jd_solar
    ELSE nearer_full(jd_solar, find_full_moon_before(jd_solar + 10),
                     find_full_moon_before(jd_solar - 1))

\* astronomy.c find_solilunar_samhain
find_solilunar_samhain(greg_year) ==
    solilunar_from(SamhainScan(jd_from_ymd(greg_year, 11, 1), 20))

\* "if (jd_samhain < jd) jd_samhain = find_solilunar_samhain(greg_year + 1)"
solilunar_at_or_after(j, greg_year, jd_samhain) ==
    IF jd_samhain < j THEN find_solilunar_samhain(greg_year + 1)
    ELSE jd_samhain

solilunar_in(j, greg_year) ==
    solilunar_at_or_after(j, greg_year, find_solilunar_samhain(greg_year))

\* astronomy.c days_to_solilunar_samhain, which derives the Gregorian year
\* from jd as lunar_celtic_month_index does
days_to_solilunar_samhain(j) ==
    solilunar_in(j, greg_from_jd(j).greg_year) - j

\* "for (int d = 0; d < limit; d++)" of find_samonios_start (limit 15) and of
\* find_solilunar_samhain (limit 20), before its first iteration
scan_enter(greg_year, limit) ==
    [jd_nov1 |-> jd_from_ymd(greg_year, 11, 1),
     jd_samhain |-> jd_from_ymd(greg_year, 11, 1),
     d |-> 0, limit |-> limit, broke |-> FALSE, iterations |-> 0]

scan_running(l) == l.d < l.limit /\ ~l.broke

\* a mutant of scan_step: the loop without its d++
scan_step_stuck(l) ==
    IF InSamhainWindow(sun_longitude(l.jd_nov1 + l.d))
        THEN [l EXCEPT !.jd_samhain = l.jd_nov1 + l.d, !.broke = TRUE,
                       !.iterations = l.iterations + 1]
    ELSE [l EXCEPT !.iterations = l.iterations + 1]

\* one iteration: "if (sun >= 224.5 && sun <= 225.5) { jd_samhain = jd_nov1 + d;
\* break; }", else d++
scan_step(l) ==
    IF InSamhainWindow(sun_longitude(l.jd_nov1 + l.d))
        THEN [l EXCEPT !.jd_samhain = l.jd_nov1 + l.d, !.broke = TRUE,
                       !.iterations = l.iterations + 1]
    ELSE [l EXCEPT !.d = l.d + 1, !.iterations = l.iterations + 1]

\* "while (jd_check < jd_current_month)" of lunar_celtic_month_index, before
\* its first iteration
count_enter(j) ==
    [jd_check |-> samonios_for(j), jd_current_month |-> find_full_moon_before(j),
     month_count |-> 0, broke |-> FALSE, iterations |-> 0]

count_running(l) == l.jd_check < l.jd_current_month /\ ~l.broke

\* a mutant of count_step: the jump of 32 days shortened to 2 days, which
\* finds the same full moon again
count_step_short(l) ==
    [l EXCEPT !.jd_check = find_full_moon_before(l.jd_check + 2),
              !.month_count = l.month_count + 1,
              !.broke = l.month_count + 1 > 13,
              !.iterations = l.iterations + 1]

\* one iteration: jd_check = find_full_moon_before(jd_check + 32); month_count++;
\* "if (month_count > 13) break"
count_step(l) ==
    [l EXCEPT !.jd_check = find_full_moon_before(l.jd_check + 32),
              !.month_count = l.month_count + 1,
              !.broke = l.month_count + 1 > 13,
              !.iterations = l.iterations + 1]

(***************************************************************************)
(* astronomy.c: the Metonic cycle.  METONIC_DAYS 6939.688 has three        *)
(* decimals, so cycles = (jd - METONIC_EPOCH_JD) / METONIC_DAYS is the     *)
(* quotient of the integers 1000 (jd - METONIC_EPOCH_JD) and 6939688, and  *)
(* position, its fractional part, is a remainder over 6939688.             *)
(***************************************************************************)
METONIC_YEARS == 19

METONIC_MONTHS == 235

\* METONIC_DAYS in 10^-3 days
METONIC_DAYS == 6939688

METONIC_EPOCH_JD == 1721424

\* fmod(cycles, 1.0), times 6939688: the sign of the dividend, as C's %
metonic_fmod(j) == CMod(1000 * (j - METONIC_EPOCH_JD), METONIC_DAYS)

\* "if (position < 0) position += 1.0"
metonic_wrap(position) == IF position < 0 THEN position + METONIC_DAYS ELSE position

metonic_position(j) == metonic_wrap(metonic_fmod(j))

\* a mutant of metonic_year: "if (position < 0) position += 1.0" left out
metonic_year_negative(j) == CDiv(metonic_fmod(j) * METONIC_YEARS, METONIC_DAYS) + 1

\* astronomy.c metonic_year: (int)(position * METONIC_YEARS) + 1
metonic_year(j) == CDiv(metonic_position(j) * METONIC_YEARS, METONIC_DAYS) + 1

\* astronomy.c metonic_lunation: (int)(position * METONIC_MONTHS) + 1
metonic_lunation(j) == CDiv(metonic_position(j) * METONIC_MONTHS, METONIC_DAYS) + 1

\* astronomy.c metonic_cycle_number: (int)((jd - METONIC_EPOCH_JD) / METONIC_DAYS) + 1
metonic_cycle_number(j) == CDiv(1000 * (j - METONIC_EPOCH_JD), METONIC_DAYS) + 1

\* astronomy.c metonic_drift_hours: cycle * 2.07, in 10^-2 hours
metonic_drift_hours(j) == metonic_cycle_number(j) * 207

(***************************************************************************)
(* The inputs.  The Julian days are the days around the reference new moon *)
(* of the lunar model (JD 2451550.1, January 2000) and the days around the *)
(* anchor of the Celtic year count (JD 2460981, 1 November 2025), on both  *)
(* sides of each.                                                          *)
(***************************************************************************)
EpochSpan == 120

AnchorSpan == 900

JDs == ((NewMoonRefWhole - EpochSpan)..(NewMoonRefWhole + EpochSpan))
         \cup ((ANCHOR_JD - AnchorSpan)..(ANCHOR_JD + AnchorSpan))

\* main.c: LATITUDE 46.38 (Coligny) in 10^-6 degrees, and the hour 12.0 main
\* assumes for a date given on the command line, in 10^-6 hours
LATITUDE == 46380000

NoonHour == 12000000

\* the days of the sunset functions: a year around the anchor, with a winter
\* and a summer solstice
SunsetSpan == 200

SunsetJDs == (ANCHOR_JD - SunsetSpan)..(ANCHOR_JD + SunsetSpan)

\* the poles, the equator, Coligny and a latitude inside the polar circle
Latitudes == {-Deg(90), Deg(0), LATITUDE, Deg(70), Deg(90)}

\* tm_hour + tm_min / 60.0: 00:00, 12:00, 16:30, 18:00, 20:00 and 23:59
Hours == {0, NoonHour, 16500000, 18000000, 20000000, 23983333}

(***************************************************************************)
(* calendar.c age_and_year_in_age: *age and *year_in_age of the Celtic     *)
(* year of jd.                                                             *)
(***************************************************************************)
AGE_YEARS == 31

AGE_OFFSET == -16

\* "*age = adjusted / AGE_YEARS; *year_in_age = (adjusted - 1) % AGE_YEARS + 1"
age_of(adjusted) ==
    [age         |-> CDiv(adjusted, AGE_YEARS),
     year_in_age |-> CMod(adjusted - 1, AGE_YEARS) + 1]

age_and_year_in_age(j) == age_of(celtic_year_from_jd(j) + AGE_OFFSET)

(***************************************************************************)
(* glyphs.c print_celtic_month_lunar and ui_ncurses.c render_month_view:   *)
(* the day of the month marked as today and the Roman numeral printed for  *)
(* it.  A read outside roman_numerals[0..15] is undefined: the build may   *)
(* print whatever lies beside the array or stop with a fault.              *)
(***************************************************************************)
roman_numerals ==
    <<"", "I", "II", "III", "IIII", "V", "VI", "VII", "VIII", "VIIII",
      "X", "XI", "XII", "XIII", "XIIII", "XV">>

OutOfBoundsRead == {"<bytes beside the array>", "<fault>"}

\* roman_numerals[display_day]: the outcomes of the read
numerals_read(display_day) ==
    IF display_day \in 0..15 THEN {roman_numerals[display_day + 1]}
    ELSE OutOfBoundsRead

\* "if (is_second_half) display_day = today_day - 15"
display_day_of(today_day) == IF today_day > 15 THEN today_day - 15 ELSE today_day

\* glyphs.c print_celtic_month_lunar: today_day and what follows from it
print_celtic_month_lunar(month_index, jd_start, jd_celtic, jd_actual, length, after_sunset) ==
    [month_idx      |-> month_index,
     jd_month_start |-> jd_start,
     celtic_today   |-> jd_celtic,
     month_days     |-> length,
     today_day      |-> (jd_celtic - jd_start) + 1,
     display_day    |-> display_day_of((jd_celtic - jd_start) + 1)]

\* render_month_view from celtic_view_jd on: the month of the day viewed,
\* printed with the Celtic day of the real current date as today
render_view(celtic_view_jd, celtic_today_jd, today_jd, after_sunset) ==
    print_celtic_month_lunar(lunar_celtic_month_index(celtic_view_jd),
                             find_full_moon_before(celtic_view_jd),
                             celtic_today_jd, today_jd,
                             lunar_month_length(celtic_view_jd), after_sunset)

\* ui_ncurses.c render_month_view(win, jd_actual) at the wall-clock time
\* (today_jd, hour)
render_month_view(jd_actual, today_jd, hour) ==
    render_view(celtic_jd_from_time(jd_actual, hour, LATITUDE),
                celtic_jd_from_time(today_jd, hour, LATITUDE),
                today_jd,
                is_after_sunset(today_jd, hour, LATITUDE))

\* MENU_NEXT_MONTH: "current_jd = month_start + month_len + 1"
next_month_jd(celtic_jd) ==
    find_full_moon_before(celtic_jd) + lunar_month_length(celtic_jd) + 1

\* MENU_PREV_MONTH: "current_jd = month_start - 1"
prev_month_jd(celtic_jd) == find_full_moon_before(celtic_jd) - 1

(***************************************************************************)
(* The program is a set of pure functions of a Julian day: a state is the  *)
(* day the caller holds (main's jd, the UI's current_jd), the function it  *)
(* has called and the value returned.  A civil date (year, month, day) is  *)
(* held only when one was given on the command line, and locals are the    *)
(* local variables of a function that is followed loop step by loop step.  *)
(***************************************************************************)
NoDate == arg_year = 0 /\ arg_month = 0 /\ arg_day = 0

Init ==
    /\ jd \in JDs
    /\ latitude = LATITUDE
    /\ current_hour = NoonHour
    /\ op = "idle"
    /\ ret = 0
    /\ days_to_event = 0
    /\ NoDate
    /\ locals = <<>>

Call(name, value) ==
    /\ op = "idle"
    /\ op' = name
    /\ ret' = value
    /\ UNCHANGED <<jd, latitude, current_hour, days_to_event, date, locals>>

\* the caller is done with the value
Return ==
    /\ op # "idle"
    /\ op' = "idle"
    /\ ret' = 0
    /\ days_to_event' = 0
    /\ latitude' = LATITUDE
    /\ current_hour' = NoonHour
    /\ locals' = <<>>
    /\ UNCHANGED <<jd, date>>

MoonPhase == Call("moon_phase", moon_phase(jd))

FindFullMoonBefore == Call("find_full_moon_before", find_full_moon_before(jd))

LunarDayOfMonth == Call("lunar_day_of_month", lunar_day_of_month(jd))

LunarMonthLength == Call("lunar_month_length", lunar_month_length(jd))

NextMoon ==
    \/ MoonPhase
    \/ FindFullMoonBefore
    \/ LunarDayOfMonth
    \/ LunarMonthLength
    \/ Return

SpecMoon == Init /\ [][NextMoon]_vars

CelticYearFromJd == Call("celtic_year_from_jd", celtic_year_from_jd(jd))

CurrentYearLength == Call("current_year_length", current_year_length(jd))

NextYear ==
    \/ CelticYearFromJd
    \/ CurrentYearLength
    \/ Return

SpecYear == Init /\ [][NextYear]_vars

SunLongitude == Call("sun_longitude", sun_longitude(jd))

SunSign == Call("sun_sign", sun_sign(jd))

NearestEightfoldEvent ==
    /\ op = "idle"
    /\ op' = "nearest_eightfold_event"
    /\ \E nearest \in {nearest_eightfold_event(jd)} :
           /\ ret' = nearest.event
           /\ days_to_event' = nearest.days
    /\ UNCHANGED <<jd, latitude, current_hour, date, locals>>

MoonSign == Call("moon_sign", moon_sign(jd))

NearestCrossQuarter ==
    /\ op = "idle"
    /\ op' = "nearest_cross_quarter"
    /\ \E nearest \in {nearest_cross_quarter(jd)} :
           /\ ret' = nearest.event
           /\ days_to_event' = nearest.days
    /\ UNCHANGED <<jd, latitude, current_hour, date, locals>>

NextSun ==
    \/ SunLongitude
    \/ SunSign
    \/ MoonSign
    \/ NearestEightfoldEvent
    \/ NearestCrossQuarter
    \/ Return

SpecSun == Init /\ [][NextSun]_vars

\* find_samonios_start for the Gregorian year the month index derives from jd
FindSamoniosStart ==
    Call("find_samonios_start", find_samonios_start(greg_from_jd(jd).greg_year))

LunarCelticMonthIndex ==
    Call("lunar_celtic_month_index", lunar_celtic_month_index(jd))

NextMonth ==
    \/ FindSamoniosStart
    \/ LunarCelticMonthIndex
    \/ Return

SpecMonth == Init /\ [][NextMonth]_vars

InitSunset ==
    /\ jd \in SunsetJDs
    /\ latitude = LATITUDE
    /\ current_hour = NoonHour
    /\ op = "idle"
    /\ ret = 0
    /\ days_to_event = 0
    /\ NoDate
    /\ locals = <<>>

CalculateSunset ==
    \E lat \in Latitudes :
        /\ op = "idle"
        /\ op' = "calculate_sunset"
        /\ latitude' = lat
        /\ ret' = calculate_sunset(jd, lat)
        /\ UNCHANGED <<jd, current_hour, days_to_event, date, locals>>

IsAfterSunset ==
    \E lat \in Latitudes, hour \in Hours :
        /\ op = "idle"
        /\ op' = "is_after_sunset"
        /\ latitude' = lat
        /\ current_hour' = hour
        /\ ret' = is_after_sunset(jd, hour, lat)
        /\ UNCHANGED <<jd, days_to_event, date, locals>>

CelticJdFromTime ==
    \E lat \in Latitudes, hour \in Hours :
        /\ op = "idle"
        /\ op' = "celtic_jd_from_time"
        /\ latitude' = lat
        /\ current_hour' = hour
        /\ ret' = celtic_jd_from_time(jd, hour, lat)
        /\ UNCHANGED <<jd, days_to_event, date, locals>>

NextSunset ==
    \/ CalculateSunset
    \/ IsAfterSunset
    \/ CelticJdFromTime
    \/ Return

SpecSunset == InitSunset /\ [][NextSunset]_vars

(***************************************************************************)
(* main with a date on the command line: jd = jd_from_ymd(year, month,     *)
(* day) for every civil date of the years around 2000, with the century    *)
(* years 1900 (no leap day), 2000 (leap day) and 2100.                     *)
(***************************************************************************)
YearSpan == 100

Years == (2000 - YearSpan)..(2000 + YearSpan)

\* the proleptic Gregorian calendar the dates are taken from
IsLeapYear(y) == (y % 4 = 0 /\ y % 100 # 0) \/ y % 400 = 0

DaysInMonth(y, m) ==
    IF m = 2 THEN (IF IsLeapYear(y) THEN 29 ELSE 28)
    ELSE IF m \in {4, 6, 9, 11} THEN 30
    ELSE 31

InitDate ==
    /\ arg_year \in Years
    /\ arg_month \in 1..12
    /\ arg_day \in 1..DaysInMonth(arg_year, arg_month)
    /\ jd = 0
    /\ latitude = LATITUDE
    /\ current_hour = NoonHour
    /\ op = "idle"
    /\ ret = 0
    /\ days_to_event = 0
    /\ locals = <<>>

\* jd = jd_from_ymd(year, month, day)
JdFromYmd ==
    /\ op = "idle"
    /\ jd = 0
    /\ op' = "jd_from_ymd"
    /\ \E j \in {jd_from_ymd(arg_year, arg_month, arg_day)} :
           /\ jd' = j
           /\ ret' = j
    /\ UNCHANGED <<latitude, current_hour, days_to_event, date, locals>>

NextDate ==
    \/ JdFromYmd
    \/ Return

SpecDate == InitDate /\ [][NextDate]_vars

(***************************************************************************)
(* The Metonic functions, on the days of a 19-year cycle and more on each  *)
(* side of METONIC_EPOCH_JD and on the days of today.                      *)
(***************************************************************************)
MetonicSpan == 7000

MetonicJDs == ((METONIC_EPOCH_JD - MetonicSpan)..(METONIC_EPOCH_JD + MetonicSpan)) \cup JDs

InitMetonic ==
    /\ jd \in MetonicJDs
    /\ latitude = LATITUDE
    /\ current_hour = NoonHour
    /\ op = "idle"
    /\ ret = 0
    /\ days_to_event = 0
    /\ NoDate
    /\ locals = <<>>

MetonicYear == Call("metonic_year", metonic_year(jd))

MetonicLunation == Call("metonic_lunation", metonic_lunation(jd))

MetonicCycleNumber == Call("metonic_cycle_number", metonic_cycle_number(jd))

MetonicDriftHours == Call("metonic_drift_hours", metonic_drift_hours(jd))

NextMetonic ==
    \/ MetonicYear
    \/ MetonicLunation
    \/ MetonicCycleNumber
    \/ MetonicDriftHours
    \/ Return

SpecMetonic == InitMetonic /\ [][NextMetonic]_vars

(***************************************************************************)
(* The searches followed through their loops: find_samonios_start and      *)
(* find_solilunar_samhain for the Gregorian years their callers pass (the  *)
(* year of jd, the year before and the year after), and the lunation       *)
(* count of lunar_celtic_month_index(jd).                                  *)
(***************************************************************************)
ScanYears(j) ==
    {greg_from_jd(j).greg_year + k : k \in {-1, 0, 1}}

Enter(name, frame) ==
    /\ op = "idle"
    /\ op' = name
    /\ locals' = frame
    /\ UNCHANGED <<jd, latitude, current_hour, ret, days_to_event, date>>

Step(name, frame) ==
    /\ op = name
    /\ locals' = frame
    /\ UNCHANGED <<jd, latitude, current_hour, op, ret, days_to_event, date>>

Leave(from, name, value) ==
    /\ op = from
    /\ op' = name
    /\ ret' = value
    /\ UNCHANGED <<jd, latitude, current_hour, days_to_event, date, locals>>

FindSamoniosStartEnter ==
    \E greg_year \in ScanYears(jd) :
        Enter("find_samonios_start.for", scan_enter(greg_year, 15))

FindSamoniosStartStep ==
    /\ op = "find_samonios_start.for"
    /\ scan_running(locals)
    /\ Step("find_samonios_start.for", scan_step(locals))

FindSamoniosStartLeave ==
    /\ op = "find_samonios_start.for"
    /\ ~scan_running(locals)
    /\ Leave("find_samonios_start.for", "find_samonios_start",
             find_full_moon_before(locals.jd_samhain + 3))

FindSolilunarSamhainEnter ==
    \E greg_year \in ScanYears(jd) :
        Enter("find_solilunar_samhain.for", scan_enter(greg_year, 20))

FindSolilunarSamhainStep ==
    /\ op = "find_solilunar_samhain.for"
    /\ scan_running(locals)
    /\ Step("find_solilunar_samhain.for", scan_step(locals))

FindSolilunarSamhainLeave ==
    /\ op = "find_solilunar_samhain.for"
    /\ ~scan_running(locals)
    /\ Leave("find_solilunar_samhain.for", "find_solilunar_samhain",
             solilunar_from(locals.jd_samhain))

LunarCelticMonthIndexEnter ==
    Enter("lunar_celtic_month_index.while", count_enter(jd))

LunarCelticMonthIndexStep ==
    /\ op = "lunar_celtic_month_index.while"
    /\ count_running(locals)
    /\ Step("lunar_celtic_month_index.while", count_step(locals))

LunarCelticMonthIndexLeave ==
    /\ op = "lunar_celtic_month_index.while"
    /\ ~count_running(locals)
    /\ Leave("lunar_celtic_month_index.while", "lunar_celtic_month_index",
             MonthOrIntercalary(locals.month_count))

NextLoops ==
    \/ FindSamoniosStartEnter
    \/ FindSamoniosStartStep
    \/ FindSamoniosStartLeave
    \/ FindSolilunarSamhainEnter
    \/ FindSolilunarSamhainStep
    \/ FindSolilunarSamhainLeave
    \/ LunarCelticMonthIndexEnter
    \/ LunarCelticMonthIndexStep
    \/ LunarCelticMonthIndexLeave
    \/ Return

SpecLoops == Init /\ [][NextLoops]_vars

(***************************************************************************)
(* The table lookups, for the month indexes 0..11, -1 (the intercalary     *)
(* month) and indexes on both sides outside the tables.                    *)
(***************************************************************************)
MonthIndexSpan == 50

MonthIndexes == (-MonthIndexSpan)..(11 + MonthIndexSpan)

InitTables ==
    /\ jd = ANCHOR_JD
    /\ latitude = LATITUDE
    /\ current_hour = NoonHour
    /\ op = "idle"
    /\ ret = 0
    /\ days_to_event = 0
    /\ NoDate
    /\ locals = <<>>

Lookup(name, month_index, value) ==
    /\ op = "idle"
    /\ op' = name
    /\ locals' = [month_index |-> month_index]
    /\ ret' = value
    /\ UNCHANGED <<jd, latitude, current_hour, days_to_event, date>>

GetCelticMonthName ==
    \E month_index \in MonthIndexes :
        Lookup("get_celtic_month_name", month_index, get_celtic_month_name(month_index))

IsMatMonth ==
    \E month_index \in MonthIndexes :
        Lookup("is_mat_month", month_index, is_mat_month(month_index))

GetMonthDays ==
    \E month_index \in MonthIndexes :
        Lookup("get_month_days", month_index, get_month_days(month_index))

NextTables ==
    \/ GetCelticMonthName
    \/ IsMatMonth
    \/ GetMonthDays
    \/ Return

SpecTables == InitTables /\ [][NextTables]_vars

(***************************************************************************)
(* The solilunar Samhain of the days of a civil date given on the command  *)
(* line: main converts the date to jd, and the Gregorian year and month    *)
(* are derived back from jd by the functions called.                       *)
(***************************************************************************)
SamhainSpan == 20

SamhainYears == (2025 - SamhainSpan)..(2025 + SamhainSpan)

InitSamhain ==
    /\ arg_year \in SamhainYears
    /\ arg_month \in 1..12
    /\ arg_day \in {1, 15, DaysInMonth(arg_year, arg_month)}
    /\ jd = jd_from_ymd(arg_year, arg_month, arg_day)
    /\ latitude = LATITUDE
    /\ current_hour = NoonHour
    /\ op = "idle"
    /\ ret = 0
    /\ days_to_event = 0
    /\ locals = <<>>

\* find_solilunar_samhain(greg_year) as days_to_solilunar_samhain calls it
\* first; jd_solar is the day its scan settles on
FindSolilunarSamhain ==
    /\ op = "idle"
    /\ op' = "find_solilunar_samhain"
    /\ \E greg_year \in {greg_from_jd(jd).greg_year} :
           /\ ret' = find_solilunar_samhain(greg_year)
           /\ locals' = [greg_year |-> greg_year,
                         jd_solar  |-> SamhainScan(jd_from_ymd(greg_year, 11, 1), 20)]
    /\ UNCHANGED <<jd, latitude, current_hour, days_to_event, date>>

DaysToSolilunarSamhain ==
    /\ op = "idle"
    /\ op' = "days_to_solilunar_samhain"
    /\ ret' = days_to_solilunar_samhain(jd)
    /\ locals' = greg_from_jd(jd)
    /\ UNCHANGED <<jd, latitude, current_hour, days_to_event, date>>

NextSamhain ==
    \/ FindSolilunarSamhain
    \/ DaysToSolilunarSamhain
    \/ LunarCelticMonthIndex
    \/ Return

SpecSamhain == InitSamhain /\ [][NextSamhain]_vars

(***************************************************************************)
(* ui_ncurses.c run_interactive_ui: jd is current_jd, op the menu entry    *)
(* last chosen, current_hour the wall-clock hour read by the last          *)
(* rendering, and locals the real current day (jd_today()), current_jd     *)
(* and the month start shown before the last menu action, and what the     *)
(* last rendering computed and printed.  Navigation is followed up to      *)
(* UISpan days from the real current day.                                  *)
(***************************************************************************)
UIWeeks == 1

UISpan == 40

UIToday == {ANCHOR_JD + 7 * k : k \in 0..UIWeeks}

\* the dates typed into "Search for Specific Date"
UISearch == {<<2025, 10, 31>>, <<2025, 12, 4>>}

\* tm_hour + tm_min / 60.0 at a rendering: midday and an evening hour after
\* sunset at Coligny
UIHours == {NoonHour, 20000000}

InitUI ==
    /\ \E today \in UIToday :
           /\ jd = today
           /\ locals = [today_jd |-> today, current_jd_before |-> 0,
                        shown_before |-> 0, numeral |-> "",
                        view |-> print_celtic_month_lunar(0, 0, 0, 0, 0, 0)]
    /\ latitude = LATITUDE
    /\ current_hour = NoonHour
    /\ op = "idle"
    /\ ret = 0
    /\ days_to_event = 0
    /\ NoDate

\* display_calendar_view(main_win, current_jd) after a menu entry has set
\* current_jd, rendered at a wall-clock hour
Display(name, current_jd) ==
    /\ Abs(current_jd - locals.today_jd) <= UISpan
    /\ op' = name
    /\ jd' = current_jd
    /\ \E hour \in UIHours :
           /\ current_hour' = hour
           /\ \E view \in {render_month_view(current_jd, locals.today_jd, hour)} :
                  \E numeral \in numerals_read(view.display_day) :
                      /\ ret' = view.jd_month_start
                      /\ locals' = [today_jd |-> locals.today_jd,
                                    current_jd_before |-> jd,
                                    shown_before |-> locals.view.jd_month_start,
                                    numeral |-> numeral,
                                    view |-> view]
    /\ UNCHANGED <<latitude, days_to_event>>

MenuToday ==
    /\ Display("MENU_TODAY", locals.today_jd)
    /\ UNCHANGED date

\* get_date_from_user: jd_from_ymd of the three numbers typed
MenuSearchDate ==
    \E ymd \in UISearch :
        /\ Display("MENU_SEARCH_DATE", jd_from_ymd(ymd[1], ymd[2], ymd[3]))
        /\ arg_year' = ymd[1]
        /\ arg_month' = ymd[2]
        /\ arg_day' = ymd[3]

MenuNextMonth ==
    /\ Display("MENU_NEXT_MONTH",
               next_month_jd(celtic_jd_from_time(jd, NoonHour, LATITUDE)))
    /\ UNCHANGED date

MenuPrevMonth ==
    /\ Display("MENU_PREV_MONTH",
               prev_month_jd(celtic_jd_from_time(jd, NoonHour, LATITUDE)))
    /\ UNCHANGED date

NextUI ==
    \/ MenuToday
    \/ MenuSearchDate
    \/ MenuNextMonth
    \/ MenuPrevMonth

SpecUI == InitUI /\ [][NextUI]_vars

(***************************************************************************)
(* The ages: days two lunar months apart over the Celtic years around the  *)
(* anchor, far enough to pass the end of an age.                           *)
(***************************************************************************)
AgeSpan == 60

AgeJDs == {ANCHOR_JD + 59 * k : k \in (-AgeSpan)..AgeSpan}

InitAge ==
    /\ jd \in AgeJDs
    /\ latitude = LATITUDE
    /\ current_hour = NoonHour
    /\ op = "idle"
    /\ ret = 0
    /\ days_to_event = 0
    /\ NoDate
    /\ locals = <<>>

\* age_and_year_in_age(celtic_jd, &age, &year_in_age)
AgeAndYearInAge ==
    /\ op = "idle"
    /\ op' = "age_and_year_in_age"
    /\ locals' = age_and_year_in_age(jd)
    /\ UNCHANGED <<jd, latitude, current_hour, ret, days_to_event, date>>

NextAge ==
    \/ AgeAndYearInAge
    \/ CelticYearFromJd
    \/ Return

SpecAge == InitAge /\ [][NextAge]_vars

(***************************************************************************)
(* C1.  The day find_full_moon_before returns is a full-moon day:          *)
(* moon_phase of it is 2 (Full).                                           *)
(***************************************************************************)
FullMoonPhaseExact ==
    op = "find_full_moon_before" => moon_phase(ret) = 2

\* the search went back from a day that is itself not in the Full bucket
FullMoonPhaseExactWitness ==
    /\ op = "find_full_moon_before"
    /\ ret < jd
    /\ moon_phase(jd) = 0

(***************************************************************************)
(* C2.  lunar_month_length is 29 or 30 and is the distance from the        *)
(* month's opening full moon to the next one: the opening day plus the     *)
(* length is a fixed point of find_full_moon_before, and no day strictly   *)
(* between the two is one.                                                 *)
(***************************************************************************)
MonthLengthIsDistance ==
    op = "lunar_month_length" =>
        LET this_full == find_full_moon_before(jd)
        IN  /\ ret \in {29, 30}
            /\ find_full_moon_before(this_full + ret) = this_full + ret
            /\ \A k \in (this_full + 1)..(this_full + ret - 1) :
                   find_full_moon_before(k) # k

\* a 29-day month, asked about from a day late enough that jd + 30 is past
\* the next full moon
MonthLengthIsDistanceWitness ==
    /\ op = "lunar_month_length"
    /\ ret = 29
    /\ jd - find_full_moon_before(jd) >= 20

(***************************************************************************)
(* C3.  celtic_jd_from_time(jd, hour, lat) is jd + 1 exactly when          *)
(* hour >= calculate_sunset(jd, lat), that is when is_after_sunset is 1,   *)
(* and jd otherwise; so once an hour yields jd + 1, every later hour of    *)
(* the same day and latitude yields jd + 1.                                *)
(***************************************************************************)
SunsetDayBoundary ==
    op = "celtic_jd_from_time" =>
        /\ ret = IF current_hour >= calculate_sunset(jd, latitude) THEN jd + 1 ELSE jd
        /\ (ret = jd + 1) <=> (is_after_sunset(jd, current_hour, latitude) = 1)
        /\ ret = jd + 1 =>
               \A later \in Hours :
                   later >= current_hour
                       => celtic_jd_from_time(jd, later, latitude) = jd + 1

\* the hour of sunset itself, which already belongs to the next Celtic day
SunsetDayBoundaryWitness ==
    /\ op = "celtic_jd_from_time"
    /\ current_hour = calculate_sunset(jd, latitude)
    /\ ret = jd + 1

(***************************************************************************)
(* C4.  calculate_sunset returns 12.0 when cos_H > 1, 24.0 when            *)
(* cos_H < -1, and 12.0 + H otherwise, where H is the arc cosine of cos_H  *)
(* in hours (cos(15 H degrees) is cos_H, here to 10^-5); the sunset hour   *)
(* lies in [12.0, 24.0].                                                   *)
(***************************************************************************)
SunsetHourOf(cos_H, hour) ==
    /\ 12 * Micro <= hour
    /\ hour <= 24 * Micro
    /\ cos_H.num > cos_H.den => hour = 12 * Micro
    /\ cos_H.num < -cos_H.den => hour = 24 * Micro
    /\ (cos_H.num <= cos_H.den /\ cos_H.num >= -cos_H.den /\ cos_H.den > 0)
           => Abs(CosDeg(15 * (hour - 12 * Micro)) - Div(cos_H.num, cos_H.den)) <= 10

SunsetInRange ==
    op = "calculate_sunset" => SunsetHourOf(sunset_cos_H(jd, latitude), ret)

\* a summer evening at Coligny: the Sun sets after 19:00
SunsetInRangeWitness ==
    /\ op = "calculate_sunset"
    /\ latitude = LATITUDE
    /\ ret > 19 * Micro
    /\ ret < 20 * Micro

(***************************************************************************)
(* C5.  As claimed: at latitude 90.0 calculate_sunset returns 24.0 in      *)
(* midwinter (declination below -20 degrees, sin(delta) < -0.35) and 12.0  *)
(* in midsummer (declination above 20 degrees).                            *)
(***************************************************************************)
PolarClampAsClaimed ==
    (op = "calculate_sunset" /\ latitude = Deg(90)) =>
        /\ sunset_sin_delta(jd) < -350000 => ret = 24 * Micro
        /\ sunset_sin_delta(jd) > 350000 => ret = 12 * Micro

(***************************************************************************)
(* C6.  The start of the Celtic year that contains jd and the start of the *)
(* following Celtic year bracket jd: prev <= jd < next, also before the    *)
(* anchor date.                                                            *)
(***************************************************************************)
SamhainBracket ==
    op = "celtic_year_from_jd" =>
        /\ jd_start_of_celtic_year(ret) <= jd
        /\ jd < jd_start_of_celtic_year(ret + 1)

\* a day before the anchor, in a cycle that started before the anchor
SamhainBracketWitness ==
    /\ op = "celtic_year_from_jd"
    /\ jd < ANCHOR_JD
    /\ ret < ANCHOR_YEAR - 1

(***************************************************************************)
(* C7.  As claimed: celtic_year_from_jd(jd) = 5127 + (Y - 2025) for every  *)
(* jd from 15 November of Y through 15 October of Y + 1.                   *)
(***************************************************************************)
AnchorGregorianYear == 2025

GregorianYears == (AnchorGregorianYear - 30)..(AnchorGregorianYear + 10)

NearestEventInRange ==
    op = "nearest_eightfold_event" =>
        /\ 0 <= days_to_event
        /\ days_to_event < 365
        /\ ret \in 0..7

\* the nearest event is ahead while another event lies less than a day behind
\* the Sun, which the + 365 turns into 364 days
NearestEventInRangeWitness ==
    /\ op = "nearest_eightfold_event"
    /\ days_to_event > 0
    /\ \E i \in 1..8 : eightfold_days(jd)[i] = 364

(***************************************************************************)
(* C11.  jd_from_ymd increases by exactly 1 per civil day: the Julian day  *)
(* of the civil day after (year, month, day) is the Julian day of (year,   *)
(* month, day) plus 1, inside a month and across month ends, 28 and 29     *)
(* February, year ends and century years.                                  *)
(***************************************************************************)
NextCivilDay(y, m, d) ==
    IF d < DaysInMonth(y, m) THEN <<y, m, d + 1>>
    ELSE IF m < 12 THEN <<y, m + 1, 1>>
    ELSE <<y + 1, 1, 1>>

JdOfDate(ymd) == jd_from_ymd(ymd[1], ymd[2], ymd[3])

JdFromYmdStepsByOne ==
    op = "jd_from_ymd" =>
        JdOfDate(NextCivilDay(arg_year, arg_month, arg_day)) = ret + 1

\* 28 February 1900, a century year without a leap day: 1 March follows
JdFromYmdStepsByOneWitness ==
    /\ op = "jd_from_ymd"
    /\ date = <<1900, 2, 28>>
    /\ jd_from_ymd(1900, 3, 1) = ret + 1

(***************************************************************************)
(* C12.  For every year, month 1..12 and day 1..28, the inverse Gregorian  *)
(* conversion used for the Samhain-year selection, applied to              *)
(* jd_from_ymd(year, month, day), yields greg_year = year.                 *)
(***************************************************************************)
GregorianYearRoundTrip ==
    (op = "jd_from_ymd" /\ arg_day <= 28) => greg_from_jd(ret).greg_year = arg_year

\* a day of January, the month whose year is c - 4715
GregorianYearRoundTripWitness ==
    /\ op = "jd_from_ymd"
    /\ arg_month = 1
    /\ arg_day = 28
    /\ greg_from_jd(ret).greg_year = arg_year

(***************************************************************************)
(* C13.  jd_from_ymd(2000, 1, 1) is 2451545.                               *)
(***************************************************************************)
JdOfJ2000 ==
    (op = "jd_from_ymd" /\ date = <<2000, 1, 1>>) => ret = 2451545

JdOfJ2000Witness ==
    /\ op = "jd_from_ymd"
    /\ date = <<2000, 1, 1>>
    /\ ret = J2000

(***************************************************************************)
(* C14.  For every jd, before and after the J2000 epoch, sun_longitude(jd) *)
(* lies in [0, 360), and sun_sign(jd) and moon_sign(jd) are integers in    *)
(* 0..11, with sun_sign(jd) = floor(sun_longitude(jd) / 30).               *)
(***************************************************************************)
AnglesNormalized ==
    /\ op = "sun_longitude" => (0 <= ret /\ ret < Deg(360))
    /\ op = "sun_sign" => (ret \in 0..11 /\ ret = sun_longitude(jd) \div Deg(30))
    /\ op = "moon_sign" => ret \in 0..11

\* a day after the March equinox, before J2000 or after: the mean longitude is
\* still below 360 and the equation of centre carries lambda past it
AnglesNormalizedWitness ==
    /\ op = "sun_longitude"
    /\ LinearAngle(280460000, 98564740, jd - J2000) > Deg(358)
    /\ ret < Deg(2)

(***************************************************************************)
(* C15.  For every jd, also before the reference new moon, moon_phase(jd)  *)
(* is in {0, 1, 2, 3} and follows the synodic fraction p of                *)
(* (jd - 2451550.1) / 29.53058867 in [0, 1): 0 when p < 0.125 or           *)
(* p >= 0.875, 1 when 0.125 <= p < 0.375, 2 when 0.375 <= p < 0.625, 3     *)
(* when 0.625 <= p < 0.875; moon_phase(2451550) is 0 (New).  Here p is     *)
(* age / synodic with age = (jd - 2451550.1) - n * synodic for the one     *)
(* integer n that puts age in [0, synodic).                                *)
(***************************************************************************)
LunationRange == (-(EpochSpan \div 29) - 2)..(((ANCHOR_JD - NewMoonRefWhole) + AnchorSpan) \div 29 + 2)

MoonAge(j) ==
    LET x == DaySub(<<j, 0>>, new_moon_ref)
        n == CHOOSE k \in LunationRange :
                 /\ DaySub(x, Lunations(k))[1] >= 0
                 /\ DayLess(DaySub(x, Lunations(k)), synodic)
    IN  DaySub(x, Lunations(n))

\* the bucket of an age a: 8 a < synodic is p < 0.125, and so on
PhaseBucket(a) ==
    IF DayLess(DayScale(8, a), synodic) \/ ~DayLess(DayScale(8, a), DayScale(7, synodic))
        THEN 0
    ELSE IF DayLess(DayScale(8, a), DayScale(3, synodic)) THEN 1
    ELSE IF DayLess(DayScale(8, a), DayScale(5, synodic)) THEN 2
    ELSE 3

MoonPhaseBuckets ==
    op = "moon_phase" =>
        /\ ret \in 0..3
        /\ ret = PhaseBucket(MoonAge(jd))
        /\ jd = NewMoonRefWhole => ret = 0

\* the day the reference new moon falls on, 0.1 days before it: p = 0.9966
MoonPhaseBucketsWitness ==
    /\ op = "moon_phase"
    /\ jd = NewMoonRefWhole
    /\ DayLess(<<jd, 0>>, new_moon_ref)
    /\ ret = 0

(***************************************************************************)
(* C16.  As claimed: sun_longitude(2451545), the J2000.0 day with d = 0,   *)
(* is 280.46 degrees within 0.01 degrees.                                  *)
(***************************************************************************)
SunLongitudeAtJ2000IsMean ==
    (op = "sun_longitude" /\ jd = J2000) => Abs(ret - 280460000) <= 10000

(***************************************************************************)
(* C16, amended.  sun_longitude(2451545) is 280.376 degrees within 0.01    *)
(* degrees: the mean longitude 280.460 plus the equation of centre         *)
(* 1.915 sin(357.528) + 0.020 sin(715.056) = -0.084 degrees.               *)
(***************************************************************************)
SunLongitudeAtJ2000 ==
    (op = "sun_longitude" /\ jd = J2000) => Abs(ret - 280376000) <= 10000

SunLongitudeAtJ2000Witness ==
    /\ op = "sun_longitude"
    /\ jd = J2000
    /\ ret > 280370000
    /\ ret < 280380000

(***************************************************************************)
(* C17.  For every jd, on either side of the Metonic epoch JD 1721424,     *)
(* metonic_year(jd) is in 1..19 and metonic_lunation(jd) is in 1..235.     *)
(***************************************************************************)
MetonicPositionInRange ==
    /\ op = "metonic_year" => ret \in 1..METONIC_YEARS
    /\ op = "metonic_lunation" => ret \in 1..METONIC_MONTHS

\* the day before the epoch is in the last year of a cycle
MetonicPositionInRangeWitness ==
    /\ op = "metonic_year"
    /\ jd = METONIC_EPOCH_JD - 1
    /\ ret = METONIC_YEARS

(***************************************************************************)
(* C18.  As claimed: for every jd, also before the Metonic epoch           *)
(* JD 1721424, metonic_cycle_number(jd) is at least 1 and                  *)
(* metonic_drift_hours(jd) = cycle number x 2.07 is positive.              *)
(***************************************************************************)
MetonicCycleAtLeastOne ==
    /\ op = "metonic_cycle_number" => ret >= 1
    /\ op = "metonic_drift_hours" => ret > 0

(***************************************************************************)
(* C19.  Every search ends within its fixed number of iterations: the      *)
(* Samonios and Samhain day scans run at most 20 iterations and the        *)
(* lunation count of lunar_celtic_month_index at most 13 iterations        *)
(* before it exits.  Every iteration adds 1 to iterations, so a search     *)
(* that is still in its loop has made fewer iterations than its ceiling    *)
(* and leaves after at most that many steps.                               *)
(***************************************************************************)
InScan == op \in {"find_samonios_start.for", "find_solilunar_samhain.for"}

AfterScan == op \in {"find_samonios_start", "find_solilunar_samhain"} /\ locals # <<>>

InCount == op = "lunar_celtic_month_index.while"

AfterCount == op = "lunar_celtic_month_index" /\ locals # <<>>

LoopsWithinCeiling ==
    /\ (InScan \/ AfterScan) => locals.iterations <= 20
    /\ (InScan /\ scan_running(locals)) => locals.iterations < 20
    /\ (InCount \/ AfterCount) => locals.iterations <= 13
    /\ (InCount /\ count_running(locals)) => locals.iterations < 13

\* a day of an intercalary month: the count has made 12 iterations and left
LoopsWithinCeilingWitness ==
    /\ AfterCount
    /\ locals.iterations = 12
    /\ ret = -1

(***************************************************************************)
(* C20.  As claimed: a lookup with a month index outside the valid range   *)
(* returns the sentinel: get_celtic_month_name returns "Unknown" for an    *)
(* index outside -1..11, and is_mat_month and get_month_days return 0 for  *)
(* an index outside 0..11.                                                 *)
(***************************************************************************)
LookupSentinelIsZero ==
    /\ (op = "get_celtic_month_name" /\ locals.month_index \notin -1..11)
           => ret = "Unknown"
    /\ (op = "is_mat_month" /\ locals.month_index \notin 0..11) => ret = 0
    /\ (op = "get_month_days" /\ locals.month_index \notin 0..11) => ret = 0

(***************************************************************************)
(* C20, amended.  A lookup with a month index outside the valid range      *)
(* returns a default: get_celtic_month_name returns "Unknown" for an index *)
(* outside -1..11, is_mat_month returns 0 and get_month_days returns 30    *)
(* for an index outside 0..11.                                             *)
(***************************************************************************)
LookupDefaults ==
    /\ (op = "get_celtic_month_name" /\ locals.month_index \notin -1..11)
           => ret = "Unknown"
    /\ (op = "is_mat_month" /\ locals.month_index \notin 0..11) => ret = 0
    /\ (op = "get_month_days" /\ locals.month_index \notin 0..11) => ret = 30

\* the intercalary month, index -1, is given 30 days
LookupDefaultsWitness ==
    /\ op = "get_month_days"
    /\ locals.month_index = -1
    /\ ret = 30

(***************************************************************************)
(* C21.  find_full_moon_before(jd) is at most 29 days before jd, is a      *)
(* fixed point of find_full_moon_before, and is what find_full_moon_before *)
(* returns for every day from it up to jd.                                 *)
(***************************************************************************)
FullMoonStable ==
    op = "find_full_moon_before" =>
        /\ 0 <= jd - ret
        /\ jd - ret <= 29
        /\ find_full_moon_before(ret) = ret
        /\ \A k \in ret..jd : find_full_moon_before(k) = ret

\* the thirtieth day of a month
FullMoonStableWitness ==
    /\ op = "find_full_moon_before"
    /\ jd - ret = 29

(***************************************************************************)
(* C22.  1 <= lunar_day_of_month(jd) <= lunar_month_length(jd), and        *)
(* lunar_month_length is the same on every day that has the same           *)
(* find_full_moon_before as jd.                                            *)
(***************************************************************************)
DayWithinMonthLength ==
    op = "lunar_month_length" =>
        LET this_full == find_full_moon_before(jd)
        IN  /\ 1 <= lunar_day_of_month(jd)
            /\ lunar_day_of_month(jd) <= ret
            /\ \A k \in (this_full - 1)..(this_full + 30) :
                   find_full_moon_before(k) = this_full
                       => lunar_month_length(k) = ret

\* the last day of a 30-day month that a 29-day month follows: jd + 30 is
\* then the full moon after the next one
DayWithinMonthLengthWitness ==
    /\ op = "lunar_month_length"
    /\ ret = 30
    /\ lunar_day_of_month(jd) = 30
    /\ find_full_moon_before(jd + 30) - find_full_moon_before(jd) = 59

(***************************************************************************)
(* C23.  As claimed: on the day find_samonios_start returns for a          *)
(* Gregorian year, lunar_celtic_month_index is 0.                          *)
(***************************************************************************)
SamoniosStartIsMonthZero ==
    op = "find_samonios_start" => lunar_celtic_month_index(ret) = 0

(***************************************************************************)
(* C24.  As claimed: lunar_celtic_month_index(jd) is the month index of    *)
(* the opening full moon of the month of jd, so that all the days of one   *)
(* lunar month have one month index.                                       *)
(***************************************************************************)
MonthIndexOfLunarMonth ==
    op = "lunar_celtic_month_index" =>
        ret = lunar_celtic_month_index(find_full_moon_before(jd))

(***************************************************************************)
(* C25.  As claimed: the event nearest_cross_quarter and                   *)
(* nearest_eightfold_event return is at or ahead of the Sun, its target    *)
(* longitude minus sun_longitude(jd), taken the short way round, is never  *)
(* negative.                                                               *)
(***************************************************************************)
SolarDiff(j, target_longitude) ==
    LET diff == target_longitude - sun_longitude(j)
    IN  IF diff > Deg(180) THEN diff - Deg(360)
        ELSE IF diff < -Deg(180) THEN diff + Deg(360)
        ELSE diff

\* the difference of the event returned
ReturnedDiff ==
    IF op = "nearest_cross_quarter"
      THEN SolarDiff(jd, cross_quarter_longitude[ret + 1])
      ELSE SolarDiff(jd, eightfold_longitude[ret + 1])

NearestEventAhead ==
    op \in {"nearest_cross_quarter", "nearest_eightfold_event"} => ReturnedDiff >= 0

(***************************************************************************)
(* C25, amended.  The offsets are whole days, the difference divided by    *)
(* 0.9856 and truncated toward zero, and the + 365 is applied to the       *)
(* negative whole days: the event returned is ahead of the Sun or less     *)
(* than 0.9856 degrees behind it, days_to_event is its difference in whole *)
(* days, and an event less than 0.9856 degrees away on either side is      *)
(* reported as 0 days away.                                                *)
(***************************************************************************)
OneDay == 985600

Truncated(diff) == IF diff >= 0 THEN diff \div OneDay ELSE -((-diff) \div OneDay)

WithinOneDay(diff) == -OneDay < diff /\ diff < OneDay

NearestEventWholeDays ==
    /\ op \in {"nearest_cross_quarter", "nearest_eightfold_event"} =>
           \E diff \in {ReturnedDiff} :
               /\ diff > -OneDay
               /\ days_to_event = Truncated(diff)
    /\ op = "nearest_cross_quarter" =>
           \A i \in 1..4 :
               WithinOneDay(SolarDiff(jd, cross_quarter_longitude[i]))
                   => days_to_event = 0 /\ ReturnedDiff < OneDay
    /\ op = "nearest_eightfold_event" =>
           \A i \in 1..8 :
               WithinOneDay(SolarDiff(jd, eightfold_longitude[i]))
                   => days_to_event = 0 /\ ReturnedDiff < OneDay

\* the Sun passed the target of the event returned less than a day ago
NearestEventWholeDaysWitness ==
    /\ op \in {"nearest_cross_quarter", "nearest_eightfold_event"}
    /\ ReturnedDiff < 0
    /\ days_to_event = 0

(***************************************************************************)
(* C26.  As claimed: when the Moon is neither Full nor New on the solar    *)
(* Samhain day jd_solar, find_solilunar_samhain returns a fixed point of   *)
(* find_full_moon_before that is at most 15 days from jd_solar and no      *)
(* farther from it than any other full-moon day.                           *)
(***************************************************************************)
SolilunarIsNearestFullMoon ==
    (op = "find_solilunar_samhain" /\ moon_phase(locals.jd_solar) \notin {0, 2}) =>
        /\ find_full_moon_before(ret) = ret
        /\ Abs(ret - locals.jd_solar) <= 15
        /\ \A k \in (locals.jd_solar - 30)..(locals.jd_solar + 30) :
               find_full_moon_before(k) = k
                   => Abs(ret - locals.jd_solar) <= Abs(k - locals.jd_solar)

(***************************************************************************)
(* C27.  As claimed: the Gregorian year and month that                     *)
(* lunar_celtic_month_index and days_to_solilunar_samhain derive from      *)
(* jd_from_ymd(y, m, d) are y and m, on the last day of a month too.       *)
(***************************************************************************)
DerivedMonthIsCivilMonth ==
    op \in {"lunar_celtic_month_index", "days_to_solilunar_samhain"} =>
        /\ greg_from_jd(jd).greg_year = arg_year
        /\ greg_from_jd(jd).greg_month = arg_month

(***************************************************************************)
(* C28.  As claimed: "Previous Celtic Month" sets current_jd to the day    *)
(* before the opening full moon of the month of current_jd, and the month  *)
(* then rendered starts on the full moon immediately preceding the start   *)
(* of the month shown before, at any wall-clock hour.                      *)
(***************************************************************************)
PrevMonthShowsPriorMonth ==
    (op = "MENU_PREV_MONTH" /\ locals.shown_before # 0) =>
        /\ jd = find_full_moon_before(locals.current_jd_before) - 1
        /\ locals.view.jd_month_start
               = find_full_moon_before(locals.shown_before - 1)

(***************************************************************************)
(* C29.  As claimed: in every rendering of the interactive UI, after any   *)
(* menu actions, today_day is in 1..month_days and the index used for      *)
(* roman_numerals is in 0..15.                                             *)
(***************************************************************************)
TodayDayWithinMonth ==
    op # "idle" =>
        /\ locals.view.today_day \in 1..locals.view.month_days
        /\ locals.view.display_day \in 0..15
        /\ locals.numeral \notin OutOfBoundsRead

(***************************************************************************)
(* C30.  As claimed: year_in_age is in 1..31, and in the Celtic year after *)
(* the year of jd the age is one more and year_in_age 1 when year_in_age   *)
(* is 31, and otherwise the age is the same and year_in_age one more.      *)
(***************************************************************************)
NextYearAge ==
    age_and_year_in_age(jd_start_of_celtic_year(celtic_year_from_jd(jd) + 1))

AgeStepsWithYearInAge ==
    op = "age_and_year_in_age" =>
        /\ locals.year_in_age \in 1..31
        /\ IF locals.year_in_age = 31
             THEN NextYearAge = [age |-> locals.age + 1, year_in_age |-> 1]
             ELSE NextYearAge = [age |-> locals.age,
                                 year_in_age |-> locals.year_in_age + 1]

====
